---------------------------- MODULE Spec2Model ----------------------------
(***************************************************************************)
(* A model of app.py: the Google News fetch loop (fetch_entries), the text *)
(* helpers (clean_text, normalize_title_for_duplicate_detection) and the   *)
(* duplicate grouping and attribution of process_entries_with_duplicates.  *)
(*                                                                         *)
(* A Python str is a tuple of one-character strings, so that the regular   *)
(* expressions of the source can be modelled by what they do to each       *)
(* character.  Python's None is the one-element tuple None, whose element  *)
(* is no character.  Text is ASCII.                                        *)
(***************************************************************************)
EXTENDS Integers, Sequences, FiniteSets, TLC

VARIABLES
    \* process_entries_with_duplicates
    pc,              \* "idle" | "grouping" | "done" | "raised"
    all_entries,     \* the entries of the argument the first loop has gone through
    kansas_outlets,  \* the argument kansas_outlets (None: the default)
    title_groups,    \* the insertion-ordered dict, as a sequence of [key, members]
    processed,       \* the returned list
    raised,          \* "none", or the KeyError that ended the call
    \* fetch_entries
    fpc,             \* "idle" | "fetching" | "returned"
    term,            \* index of the search term whose feed is being read
    feed_items,      \* every feed item read so far, in term order then feed order
    fetched,         \* the local all_entries of fetch_entries
    seen_links,      \* the local seen_links of fetch_entries
    \* clean_text and normalize_title_for_duplicate_detection
    tpc,             \* "idle" | "start" | "cleaned" | "recleaned" | "normalized"
    text,            \* the argument
    cleaned,         \* clean_text(text)
    recleaned,       \* clean_text(clean_text(text))
    normalized       \* normalize_title_for_duplicate_detection(text)

procVars  == <<pc, all_entries, kansas_outlets, title_groups, processed, raised>>
fetchVars == <<fpc, term, feed_items, fetched, seen_links>>
textVars  == <<tpc, text, cleaned, recleaned, normalized>>
vars      == <<procVars, fetchVars, textVars>>

---------------------------------------------------------------------------
(* Bounds of the model.                                                    *)

\* the longest argument all_entries of process_entries_with_duplicates
MaxEntries == 4
\* the number of search terms of fetch_entries
MaxTerms == 2
\* the number of feed items read over all terms
MaxFeedItems == 3
\* the number of tokens an argument of the text helpers is made of
MaxTokens == 3

---------------------------------------------------------------------------
(* Python values.                                                          *)

None == <<"None">>

\* bool(x) of a str or None
Truthy(x) == x # None /\ x # <<>>

\* x or d
Or(x, d) == IF Truthy(x) THEN x ELSE d

UpperCase == <<"A","B","C","D","E","F","G","H","I","J","K","L","M",
               "N","O","P","Q","R","S","T","U","V","W","X","Y","Z">>
LowerCase == <<"a","b","c","d","e","f","g","h","i","j","k","l","m",
               "n","o","p","q","r","s","t","u","v","w","x","y","z">>
Digit == {"0","1","2","3","4","5","6","7","8","9"}
Letter == {UpperCase[i] : i \in 1..26} \cup {LowerCase[i] : i \in 1..26}

\* \w of the re module
WordChars == Letter \cup Digit \cup {"_"}

\* the vertical tab '\x0b' and the separators '\x1c' to '\x1f'
VT == ""
FS == ""
GS == ""
RS == ""
US == ""

\* \s of the re module on a str pattern, and the characters str.strip() removes:
\* the ASCII characters c with c.isspace()
SpaceChars == {" ", "\t", "\n", "\r", "\f", VT, FS, GS, RS, US}
IsSpace(c) == c \in SpaceChars

\* str.lower(), one character
LowerOf == [c \in {UpperCase[i] : i \in 1..26} |->
               LowerCase[CHOOSE i \in 1..26 : UpperCase[i] = c]]
LowerChar(c) == IF c \in DOMAIN LowerOf THEN LowerOf[c] ELSE c

\* str.lower()
Lower(s) == [i \in 1..Len(s) |-> LowerChar(s[i])]

RECURSIVE LStrip(_)
LStrip(s) == IF s # <<>> /\ IsSpace(Head(s)) THEN LStrip(Tail(s)) ELSE s

RECURSIVE RStrip(_)
RStrip(s) ==
    IF s # <<>> /\ IsSpace(s[Len(s)]) THEN RStrip(SubSeq(s, 1, Len(s) - 1)) ELSE s

\* str.strip()
Strip(s) == RStrip(LStrip(s))

\* s.startswith(p), s.endswith(p), p in s
StartsWith(s, p) == Len(s) >= Len(p) /\ SubSeq(s, 1, Len(p)) = p
EndsWith(s, p) == Len(s) >= Len(p) /\ SubSeq(s, Len(s) - Len(p) + 1, Len(s)) = p
Contains(s, p) == \E i \in 0..(Len(s) - Len(p)) : SubSeq(s, i + 1, i + Len(p)) = p

\* ''.join(parts)
RECURSIVE Concat(_)
Concat(parts) == IF parts = <<>> THEN <<>> ELSE Head(parts) \o Concat(Tail(parts))

---------------------------------------------------------------------------
(* clean_text                                                              *)

\* the characters the class [^\w\s\-\.,:;!?()\'\"] does not match
KeptPunctuation == {"-", ".", ",", ":", ";", "!", "?", "(", ")", "'", "\""}
KeptChars == WordChars \cup SpaceChars \cup KeptPunctuation
IsKept(c) == c \in KeptChars

\* re.sub(r'[^\w\s\-\.,:;!?()\'\"]+', '', s): every run of other characters goes
RECURSIVE ReSubOthers(_)
ReSubOthers(s) ==
    IF s = <<>> THEN <<>>
    ELSE IF IsKept(Head(s)) THEN <<Head(s)>> \o ReSubOthers(Tail(s))
    ELSE ReSubOthers(Tail(s))

\* a slip: strip() applied to the argument instead of the result
clean_text_strip_first(t) == ReSubOthers(Strip(Or(t, <<>>)))

\* a slip: the colon left out of the character class
clean_text_no_colon(t) == Strip(SelectSeq(ReSubOthers(Or(t, <<>>)), LAMBDA c : c # ":"))

clean_text(t) == Strip(ReSubOthers(Or(t, <<>>)))

---------------------------------------------------------------------------
(* normalize_title_for_duplicate_detection                                 *)

\* the alternatives of r'^(breaking:?\s*|update:?\s*|exclusive:?\s*)'
\* 'breaking', 'update', 'exclusive'
Markers == << <<"b", "r", "e", "a", "k", "i", "n", "g">>, <<"u", "p", "d", "a", "t", "e">>, <<"e", "x", "c", "l", "u", "s", "i", "v", "e">> >>

\* what follows one alternative: an optional colon, then \s*
AfterMarker(rest) ==
    LStrip(IF rest # <<>> /\ Head(rest) = ":" THEN Tail(rest) ELSE rest)

\* re.sub(r'^(breaking:?\s*|update:?\s*|exclusive:?\s*)', '', s): ^ matches at
\* offset 0 only, so at most one replacement is made
ReSubLeadingMarker(s) ==
    IF \E i \in 1..Len(Markers) : StartsWith(s, Markers[i])
    THEN LET i == CHOOSE j \in 1..Len(Markers) :
                      /\ StartsWith(s, Markers[j])
                      /\ \A k \in 1..(j - 1) : ~StartsWith(s, Markers[k])
         IN  AfterMarker(SubSeq(s, Len(Markers[i]) + 1, Len(s)))
    ELSE s

\* re.sub(r'\s+', ' ', s)
RECURSIVE ReSubSpaces(_)
ReSubSpaces(s) ==
    IF s = <<>> THEN <<>>
    ELSE IF IsSpace(Head(s)) THEN <<" ">> \o ReSubSpaces(LStrip(s))
    ELSE <<Head(s)>> \o ReSubSpaces(Tail(s))

\* a slip: the title is not trimmed before the marker is looked for
normalize_trim_last(title) ==
    Strip(ReSubSpaces(ReSubLeadingMarker(Lower(Or(title, <<>>)))))

normalize_title_for_duplicate_detection(title) ==
    LET lowered  == Strip(Lower(Or(title, <<>>)))
        unmarked == ReSubLeadingMarker(lowered)
    IN  ReSubSpaces(unmarked)

---------------------------------------------------------------------------
(* The text helpers called on their own: SpecText.                         *)

\* the pieces an argument is made of
\* 'Breaking: ', 'Update: ', 'EXCLUSIVE', ' ', '\t'
Tokens == { <<"B", "r", "e", "a", "k", "i", "n", "g", ":", " ">>, <<"U", "p", "d", "a", "t", "e", ":", " ">>, <<"E", "X", "C", "L", "U", "S", "I", "V", "E">>, <<" ">>, <<"\t">>,
            \* 'X', '_', '@', ':', '-9', '\x0b'
            <<"X">>, <<"_">>, <<"@">>, <<":">>, <<"-", "9">>, <<"">> }

\* the arguments: None, and every string of at most MaxTokens tokens
TextInputs ==
    {None} \cup
    { Concat(ts) : ts \in UNION { [1..n -> Tokens] : n \in 0..MaxTokens } }

TextIdle ==
    /\ tpc = "idle" /\ text = None /\ cleaned = None
    /\ recleaned = None /\ normalized = None

TextInit ==
    /\ tpc = "start"
    /\ text \in TextInputs
    /\ cleaned = None /\ recleaned = None /\ normalized = None

\* cleaned = clean_text(text)
CleanText ==
    /\ tpc = "start"
    /\ cleaned' = clean_text(text)
    /\ tpc' = "cleaned"
    /\ UNCHANGED <<text, recleaned, normalized, procVars, fetchVars>>

\* recleaned = clean_text(cleaned)
CleanAgain ==
    /\ tpc = "cleaned"
    /\ recleaned' = clean_text(cleaned)
    /\ tpc' = "recleaned"
    /\ UNCHANGED <<text, cleaned, normalized, procVars, fetchVars>>

\* normalized = normalize_title_for_duplicate_detection(text)
NormalizeTitle ==
    /\ tpc = "start"
    /\ normalized' = normalize_title_for_duplicate_detection(text)
    /\ tpc' = "normalized"
    /\ UNCHANGED <<text, cleaned, recleaned, procVars, fetchVars>>

---------------------------------------------------------------------------
(* process_entries_with_duplicates                                         *)

KANSAS_OUTLETS == <<
    \* 'Kansas Reflector', 'The Topeka Capital-Journal', 'The Wichita Eagle'
    <<"K", "a", "n", "s", "a", "s", " ", "R", "e", "f", "l", "e", "c", "t", "o", "r">>, <<"T", "h", "e", " ", "T", "o", "p", "e", "k", "a", " ", "C", "a", "p", "i", "t", "a", "l", "-", "J", "o", "u", "r", "n", "a", "l">>, <<"T", "h", "e", " ", "W", "i", "c", "h", "i", "t", "a", " ", "E", "a", "g", "l", "e">>,
    \* 'KCLY Radio', 'KSN-TV', 'KWCH', 'Kansas City Star'
    <<"K", "C", "L", "Y", " ", "R", "a", "d", "i", "o">>, <<"K", "S", "N", "-", "T", "V">>, <<"K", "W", "C", "H">>, <<"K", "a", "n", "s", "a", "s", " ", "C", "i", "t", "y", " ", "S", "t", "a", "r">>,
    \* 'Lawrence Journal-World', 'The Garden City Telegram', 'KSNT 27 News'
    <<"L", "a", "w", "r", "e", "n", "c", "e", " ", "J", "o", "u", "r", "n", "a", "l", "-", "W", "o", "r", "l", "d">>, <<"T", "h", "e", " ", "G", "a", "r", "d", "e", "n", " ", "C", "i", "t", "y", " ", "T", "e", "l", "e", "g", "r", "a", "m">>, <<"K", "S", "N", "T", " ", "2", "7", " ", "N", "e", "w", "s">>,
    \* 'The Hutchinson News', 'Salina Journal', 'Hays Daily News'
    <<"T", "h", "e", " ", "H", "u", "t", "c", "h", "i", "n", "s", "o", "n", " ", "N", "e", "w", "s">>, <<"S", "a", "l", "i", "n", "a", " ", "J", "o", "u", "r", "n", "a", "l">>, <<"H", "a", "y", "s", " ", "D", "a", "i", "l", "y", " ", "N", "e", "w", "s">>,
    \* 'Hays Post', 'Emporia Gazette', 'JC Post', 'WIBW', 'KRSL'
    <<"H", "a", "y", "s", " ", "P", "o", "s", "t">>, <<"E", "m", "p", "o", "r", "i", "a", " ", "G", "a", "z", "e", "t", "t", "e">>, <<"J", "C", " ", "P", "o", "s", "t">>, <<"W", "I", "B", "W">>, <<"K", "R", "S", "L">>,
    \* 'Dodge City Daily Globe', 'DerbyInformer.com', 'KCTV'
    <<"D", "o", "d", "g", "e", " ", "C", "i", "t", "y", " ", "D", "a", "i", "l", "y", " ", "G", "l", "o", "b", "e">>, <<"D", "e", "r", "b", "y", "I", "n", "f", "o", "r", "m", "e", "r", ".", "c", "o", "m">>, <<"K", "C", "T", "V">> >>

EXCLUDE_SOURCES_CONTAINS ==
    \* '.gov', 'Quiver Quantitative', 'MSN', 'Twin States News'
    << <<".", "g", "o", "v">>, <<"Q", "u", "i", "v", "e", "r", " ", "Q", "u", "a", "n", "t", "i", "t", "a", "t", "i", "v", "e">>, <<"M", "S", "N">>, <<"T", "w", "i", "n", " ", "S", "t", "a", "t", "e", "s", " ", "N", "e", "w", "s">> >>

\* 'Unknown'
Unknown == <<"U", "n", "k", "n", "o", "w", "n">>

\* the argument kansas_outlets left out: a list that holds no outlet names
NoList == <<None>>

\* if kansas_outlets is None: kansas_outlets = KANSAS_OUTLETS
OutletList(arg) == IF arg = NoList THEN KANSAS_OUTLETS ELSE arg

\* the arguments process_entries_with_duplicates is called with

\* (title, outlet name) of the articles an argument is drawn from
Articles == {
    \* 'Moran Wins Vote - KSN-TV', 'KSN-TV'
    << <<"M", "o", "r", "a", "n", " ", "W", "i", "n", "s", " ", "V", "o", "t", "e", " ", "-", " ", "K", "S", "N", "-", "T", "V">>,  <<"K", "S", "N", "-", "T", "V">> >>,
    \* 'Moran Wins Vote', 'MSN'
    << <<"M", "o", "r", "a", "n", " ", "W", "i", "n", "s", " ", "V", "o", "t", "e">>,           <<"M", "S", "N">> >>,
    \* 'Breaking: Moran Wins Vote', 'WIBW'
    << <<"B", "r", "e", "a", "k", "i", "n", "g", ":", " ", "M", "o", "r", "a", "n", " ", "W", "i", "n", "s", " ", "V", "o", "t", "e">>, <<"W", "I", "B", "W">> >>,
    \* 'moran  wins vote', 'msn'
    << <<"m", "o", "r", "a", "n", " ", " ", "w", "i", "n", "s", " ", "v", "o", "t", "e">>,          <<"m", "s", "n">> >>,
    \* 'Farm Bill', 'ks.gov'
    << <<"F", "a", "r", "m", " ", "B", "i", "l", "l">>,                 <<"k", "s", ".", "g", "o", "v">> >>,
    \* 'Farm Bill - Unknown'
    << <<"F", "a", "r", "m", " ", "B", "i", "l", "l", " ", "-", " ", "U", "n", "k", "n", "o", "w", "n">>,       None >>,
    \* ''
    << None,                          <<>> >>,
    \* 'Farm #Bill', 'WIBW News'
    << <<"F", "a", "r", "m", " ", "#", "B", "i", "l", "l">>,                <<"W", "I", "B", "W", " ", "N", "e", "w", "s">> >> }

\* the arguments kansas_outlets: left out, or a list as typed by the user
\* '\x0bwibw ', '', 'Unknown', 'WIBW Newsroom'
KansasArgs == { NoList, << <<"", "w", "i", "b", "w", " ">>, <<>>, <<"U", "n", "k", "n", "o", "w", "n">>, <<"W", "I", "B", "W", " ", "N", "e", "w", "s", "r", "o", "o", "m">> >> }

\* links are unique in what fetch_entries returns: the n-th entry's link
LinkLetters == <<"a", "b", "c", "d", "e", "f", "g", "h">>
\* 'https://'
LinkOf(n) == <<"h", "t", "t", "p", "s", ":", "/", "/">> \o <<LinkLetters[n]>>

EntryOf(article, n) ==
    [title |-> article[1], link |-> LinkOf(n), source |-> [title |-> article[2]]]

\* dicts that lack a key: no 'source', a source without 'title', no 'title',
\* no 'link'
KeylessAt(n) == {
    \* 'Farm Bill'
    [title |-> <<"F", "a", "r", "m", " ", "B", "i", "l", "l">>, link |-> LinkOf(n)],
    \* 'Farm Bill'
    [title |-> <<"F", "a", "r", "m", " ", "B", "i", "l", "l">>, link |-> LinkOf(n),
     \* 'https://wibw.com'
     source |-> [href |-> <<"h", "t", "t", "p", "s", ":", "/", "/", "w", "i", "b", "w", ".", "c", "o", "m">>]],
    \* 'WIBW'
    [link |-> LinkOf(n), source |-> [title |-> <<"W", "I", "B", "W">>]],
    \* 'Farm Bill', 'WIBW'
    [title |-> <<"F", "a", "r", "m", " ", "B", "i", "l", "l">>, source |-> [title |-> <<"W", "I", "B", "W">>]] }

\* the dicts the n-th entry of the argument is drawn from
EntriesAt(n) == { EntryOf(article, n) : article \in Articles } \cup KeylessAt(n)

\* key in d: a dict is a function of its keys
HasKey(d, key) == key \in DOMAIN d

\* a slip: the outlet is marked when a list entry is part of its name
is_kansas_outlet_substring(media, outlets) ==
    \E i \in 1..Len(outlets) : outlets[i] # <<>> /\ Contains(media, outlets[i])

\* any(k.strip() and k.strip().lower() == media.lower() for k in kansas_outlets)
is_kansas_outlet(media, outlets) ==
    \E i \in 1..Len(outlets) :
        /\ Truthy(Strip(outlets[i]))
        /\ Lower(Strip(outlets[i])) = Lower(media)

\* media = (entry['source']['title'] or "Unknown")
MediaOf(entry) == Or(entry.source.title, Unknown)

\* a slip: the exclusion list is matched whatever the case
IsExcludedAnyCase(media) ==
    \E i \in 1..Len(EXCLUDE_SOURCES_CONTAINS) :
        Contains(Lower(media), Lower(EXCLUDE_SOURCES_CONTAINS[i]))

\* any(x in media for x in EXCLUDE_SOURCES_CONTAINS)
IsExcluded(media) ==
    \E i \in 1..Len(EXCLUDE_SOURCES_CONTAINS) :
        Contains(media, EXCLUDE_SOURCES_CONTAINS[i])

\* re.sub(rf" - {re.escape(media)}$", "", title): $ matches at the end of the
\* string and before a newline that ends it; the leftmost match is replaced
ReSubOutletSuffix(title, media) ==
    \* ' - '
    LET suffix == <<" ", "-", " ">> \o media
        n      == Len(title)
    IN  IF n > 0 /\ title[n] = "\n" /\ EndsWith(SubSeq(title, 1, n - 1), suffix)
        THEN SubSeq(title, 1, n - 1 - Len(suffix)) \o <<"\n">>
        ELSE IF EndsWith(title, suffix)
        THEN SubSeq(title, 1, n - Len(suffix))
        ELSE title

\* raw_title, title and normalized of one entry
RawTitleOf(entry) == ReSubOutletSuffix(Or(entry.title, <<>>), MediaOf(entry))
TitleOf(entry) == clean_text(RawTitleOf(entry))

\* a slip: the groups are keyed by the displayed title
NormalizedOfDisplayed(entry) == TitleOf(entry)

NormalizedOf(entry) == normalize_title_for_duplicate_detection(TitleOf(entry))

\* the KeyError that one iteration of the first loop raises on entry, "none" if
\* it raises none: entry['source']['title'] is read first, entry['title'] and
\* entry['link'] only when the outlet is not excluded
KeyErrorOf(entry) ==
    IF ~HasKey(entry, "source") THEN "KeyError: 'source'"
    ELSE IF ~HasKey(entry.source, "title") THEN "KeyError: 'title'"
    ELSE IF IsExcluded(MediaOf(entry)) THEN "none"
    ELSE IF ~HasKey(entry, "title") THEN "KeyError: 'title'"
    ELSE IF ~HasKey(entry, "link") THEN "KeyError: 'link'"
    ELSE "none"

\* what the first loop computes from one entry
Computed(entry) ==
    [excluded   |-> IsExcluded(MediaOf(entry)),
     title      |-> TitleOf(entry),
     normalized |-> NormalizedOf(entry),
     media      |-> clean_text(MediaOf(entry))]

\* title_groups.setdefault(key, []), on an insertion-ordered dict: a new key
\* goes last, with an empty list
SetDefault(groups, key) ==
    IF \E i \in 1..Len(groups) : groups[i].key = key
    THEN groups
    ELSE Append(groups, [key |-> key, members |-> <<>>])

\* a slip: a new key goes to the front of the dict
SetDefaultAppendFront(groups, key, member) ==
    IF \E i \in 1..Len(groups) : groups[i].key = key
    THEN [i \in 1..Len(groups) |->
             IF groups[i].key = key
             THEN [groups[i] EXCEPT !.members = Append(@, member)]
             ELSE groups[i]]
    ELSE <<[key |-> key, members |-> <<member>>]>> \o groups

\* title_groups.setdefault(key, []).append(member), on an insertion-ordered dict
SetDefaultAppend(groups, key, member) ==
    LET present == SetDefault(groups, key)
    IN  [i \in 1..Len(present) |->
            IF present[i].key = key
            THEN [present[i] EXCEPT !.members = Append(@, member)]
            ELSE present[i]]

\* an article with its missing title and outlet name written out
WrittenOut(article) ==
    << IF article[1] = None THEN <<>> ELSE article[1],
       IF Truthy(article[2]) THEN article[2] ELSE Unknown >>

\* Computed does not read the link: its values for the articles above, worked
\* out once
ComputedTable ==
    [a \in Articles \cup { WrittenOut(b) : b \in Articles } |->
        Computed(EntryOf(a, 1))] @@ <<>>
ComputedOf(entry) ==
    LET a == <<entry.title, entry.source.title>>
    IN  IF a \in DOMAIN ComputedTable THEN ComputedTable[a] ELSE Computed(entry)

\* title_groups when one iteration of the first loop raises on entry: the
\* setdefault of line 174 has run by the time entry['link'] of line 177 raises,
\* the subscripts of lines 166 and 170 raise before it
GroupsAtRaise(groups, entry) ==
    IF KeyErrorOf(entry) = "KeyError: 'link'"
    THEN SetDefault(groups, NormalizedOf(entry))
    ELSE groups

\* one iteration of: for entry in all_entries
GroupEntry(groups, entry) ==
    LET c == ComputedOf(entry)
    IN  IF c.excluded THEN groups
        ELSE SetDefaultAppend(groups, c.normalized,
                              [title |-> c.title,
                               media |-> c.media,
                               link  |-> entry.link,
                               entry |-> entry])

\* is_kansas_outlet for the outlets and the lists above, worked out once
KansasTable ==
    [l \in { OutletList(arg) : arg \in KansasArgs } |->
        [m \in { ComputedTable[a].media : a \in DOMAIN ComputedTable } |->
            is_kansas_outlet(m, l)] @@ <<>>] @@ <<>>
IsKansasOutlet(media, outlets) ==
    IF outlets \in DOMAIN KansasTable /\ media \in DOMAIN KansasTable[outlets]
    THEN KansasTable[outlets][media]
    ELSE is_kansas_outlet(media, outlets)

\* f"*{media}" if is_kansas_outlet(media, kansas_outlets) else media
format_outlet(media, outlets) ==
    IF IsKansasOutlet(media, outlets) THEN <<"*">> \o media ELSE media

\* ', '.join(parts)
RECURSIVE JoinComma(_)
JoinComma(parts) ==
    IF parts = <<>> THEN <<>>
    ELSE IF Len(parts) = 1 THEN parts[1]
    \* ', '
    ELSE parts[1] \o <<",", " ">> \o JoinComma(Tail(parts))

\* a slip: a comma before the 'and'
AlsoRanInOxford(dup_outlets) ==
    IF Len(dup_outlets) = 1
    \* ' (also ran in ', ')'
    THEN <<" ", "(", "a", "l", "s", "o", " ", "r", "a", "n", " ", "i", "n", " ">> \o dup_outlets[1] \o <<")">>
    \* ' (also ran in '
    ELSE <<" ", "(", "a", "l", "s", "o", " ", "r", "a", "n", " ", "i", "n", " ">>
         \o JoinComma(SubSeq(dup_outlets, 1, Len(dup_outlets) - 1))
         \* ', and ', ')'
         \o <<",", " ", "a", "n", "d", " ">> \o dup_outlets[Len(dup_outlets)] \o <<")">>

\* the suffix added when duplicates is not empty
AlsoRanIn(dup_outlets) ==
    IF Len(dup_outlets) = 1
    \* ' (also ran in ', ')'
    THEN <<" ", "(", "a", "l", "s", "o", " ", "r", "a", "n", " ", "i", "n", " ">> \o dup_outlets[1] \o <<")">>
    \* ' (also ran in '
    ELSE <<" ", "(", "a", "l", "s", "o", " ", "r", "a", "n", " ", "i", "n", " ">>
         \o JoinComma(SubSeq(dup_outlets, 1, Len(dup_outlets) - 1))
         \* ' and ', ')'
         \o <<" ", "a", "n", "d", " ">> \o dup_outlets[Len(dup_outlets)] \o <<")">>

\* the body of: for group in title_groups.values()
MergedEntry(group, outlets) ==
    LET primary     == group[1]
        duplicates  == Tail(group)
        dup_outlets == [i \in 1..Len(duplicates) |->
                           format_outlet(duplicates[i].media, outlets)]
    IN  [title        |-> primary.title,
         media_string |-> format_outlet(primary.media, outlets)
                          \o (IF duplicates # <<>> THEN AlsoRanIn(dup_outlets)
                              ELSE <<>>),
         link         |-> primary.link,
         is_kansas    |-> IsKansasOutlet(primary.media, outlets)]

ProcIdle ==
    /\ pc = "idle" /\ all_entries = <<>> /\ kansas_outlets = NoList
    /\ title_groups = <<>> /\ processed = <<>> /\ raised = "none"

\* the call: title_groups = {}
ProcInit ==
    /\ pc = "grouping"
    /\ all_entries = <<>>
    /\ kansas_outlets \in KansasArgs
    /\ title_groups = <<>>
    /\ processed = <<>>
    /\ raised = "none"

\* one iteration of the first loop, on the next entry of the argument; a key
\* the entry lacks ends the call with a KeyError, after the statements before
\* the failing subscript have run
ReadEntry ==
    /\ pc = "grouping"
    /\ Len(all_entries) < MaxEntries
    /\ \E entry \in EntriesAt(Len(all_entries) + 1) :
        IF KeyErrorOf(entry) # "none"
        THEN /\ raised' = KeyErrorOf(entry)
             /\ pc' = "raised"
             /\ title_groups' = GroupsAtRaise(title_groups, entry)
             /\ UNCHANGED all_entries
        ELSE /\ all_entries' = Append(all_entries, entry)
             /\ title_groups' = GroupEntry(title_groups, entry)
             /\ UNCHANGED <<pc, raised>>
    /\ UNCHANGED <<kansas_outlets, processed, textVars, fetchVars>>

\* the argument is exhausted: the second loop, and return processed
Assemble ==
    /\ pc = "grouping"
    /\ processed' = [i \in 1..Len(title_groups) |->
                        MergedEntry(title_groups[i].members,
                                    OutletList(kansas_outlets))]
    /\ pc' = "done"
    /\ UNCHANGED <<all_entries, kansas_outlets, title_groups, raised,
                   textVars, fetchVars>>

---------------------------------------------------------------------------
(* fetch_entries                                                           *)

\* e has no 'source', or an empty one
NoSource == [present |-> FALSE, title |-> None]
SourceTitled(t) == [present |-> TRUE, title |-> t]

\* a slip: an item without a link is kept
SkipItemSeenOnly(link, seen) == link \in seen

\* if not link or link in seen_links: continue
SkipItem(link, seen) == ~Truthy(link) \/ link \in seen

\* src = getattr(e, "source", None); media = src.get("title") if src is a
\* dict that is not empty; if not media: media = e.get("author") or "Unknown"
MediaOfItem(e) ==
    LET media == IF e.source.present THEN e.source.title ELSE None
    IN  IF Truthy(media) THEN media ELSE Or(e.author, Unknown)

\* the dict appended to all_entries
RecordOf(e) ==
    [title  |-> Strip(Or(e.title, <<>>)),
     link   |-> e.link,
     source |-> [title |-> MediaOfItem(e)]]

\* the items the feeds hold
FeedItems == {
    \* 'https://a', ' Moran Wins Vote \n'
    [link |-> <<"h", "t", "t", "p", "s", ":", "/", "/", "a">>, title |-> <<" ", "M", "o", "r", "a", "n", " ", "W", "i", "n", "s", " ", "V", "o", "t", "e", " ", "\n">>,
     \* 'KSN-TV'
     source |-> SourceTitled(<<"K", "S", "N", "-", "T", "V">>), author |-> None],
    \* 'https://a', 'Farm Bill'
    [link |-> <<"h", "t", "t", "p", "s", ":", "/", "/", "a">>, title |-> <<"F", "a", "r", "m", " ", "B", "i", "l", "l">>,
     \* 'WIBW'
     source |-> SourceTitled(<<"W", "I", "B", "W">>), author |-> None],
    \* 'Farm Bill'
    [link |-> None, title |-> <<"F", "a", "r", "m", " ", "B", "i", "l", "l">>,
     \* 'WIBW'
     source |-> SourceTitled(<<"W", "I", "B", "W">>), author |-> None],
    \* '', 'Farm Bill'
    [link |-> <<>>, title |-> <<"F", "a", "r", "m", " ", "B", "i", "l", "l">>,
     \* 'WIBW'
     source |-> SourceTitled(<<"W", "I", "B", "W">>), author |-> None],
    \* 'https://b'
    [link |-> <<"h", "t", "t", "p", "s", ":", "/", "/", "b">>, title |-> None,
     \* 'AP'
     source |-> NoSource, author |-> <<"A", "P">>],
    \* 'https://b', 'Farm Bill'
    [link |-> <<"h", "t", "t", "p", "s", ":", "/", "/", "b">>, title |-> <<"F", "a", "r", "m", " ", "B", "i", "l", "l">>,
     \* ''
     source |-> SourceTitled(<<>>), author |-> None],
    \* 'https://c', ''
    [link |-> <<"h", "t", "t", "p", "s", ":", "/", "/", "c">>, title |-> <<>>,
     \* ''
     source |-> SourceTitled(None), author |-> <<>>] }

FetchIdle ==
    /\ fpc = "idle" /\ term = 0 /\ feed_items = <<>>
    /\ fetched = <<>> /\ seen_links = {}

\* all_entries, seen_links = [], set()
FetchInit ==
    /\ fpc = "fetching"
    /\ term = 0
    /\ feed_items = <<>>
    /\ fetched = <<>>
    /\ seen_links = {}

\* for term in search_terms: feed = feedparser.parse(url)
NextTerm ==
    /\ fpc = "fetching"
    /\ term < MaxTerms
    /\ term' = term + 1
    /\ UNCHANGED <<fpc, feed_items, fetched, seen_links, procVars, textVars>>

\* one iteration of: for e in feed.entries
ReadItem ==
    /\ fpc = "fetching"
    /\ term >= 1
    /\ Len(feed_items) < MaxFeedItems
    /\ \E e \in FeedItems :
        /\ feed_items' = Append(feed_items, [term |-> term, item |-> e])
        /\ IF SkipItem(e.link, seen_links)
           THEN UNCHANGED <<fetched, seen_links>>
           ELSE /\ seen_links' = seen_links \cup {e.link}
                /\ fetched' = Append(fetched, RecordOf(e))
    /\ UNCHANGED <<fpc, term, procVars, textVars>>

\* the terms are exhausted: return all_entries
ReturnEntries ==
    /\ fpc = "fetching"
    /\ fpc' = "returned"
    /\ UNCHANGED <<term, feed_items, fetched, seen_links, procVars, textVars>>

---------------------------------------------------------------------------
(* The specifications.                                                     *)

\* a call of process_entries_with_duplicates
Init == ProcInit /\ FetchIdle /\ TextIdle
Next == ReadEntry \/ Assemble
Spec == Init /\ [][Next]_vars

\* a call of fetch_entries
InitFetch == FetchInit /\ ProcIdle /\ TextIdle
NextFetch == NextTerm \/ ReadItem \/ ReturnEntries
SpecFetch == InitFetch /\ [][NextFetch]_vars

\* calls of clean_text and normalize_title_for_duplicate_detection
InitText == TextInit /\ ProcIdle /\ FetchIdle
NextText == CleanText \/ CleanAgain \/ NormalizeTitle
SpecText == InitText /\ [][NextText]_vars

---------------------------------------------------------------------------
(* Claims about clean_text, under SpecText.                                *)

\* the ASCII whitespace of Python: space, \t, \n, \r, \f, \x0b and \x1c to \x1f
C6_Whitespace == {" ", "\t", "\n", "\r", "\f", "", "", "", "", ""}
C6_Eleven == {"-", ".", ",", ":", ";", "!", "?", "(", ")", "'", "\""}
C6_Alphanumeric == Letter \cup Digit
C6_Claimed == C6_Alphanumeric \cup C6_Whitespace \cup C6_Eleven
C6_Surviving == C6_Claimed \cup {"_"}

\* C6 as stated: every character of clean_text's result is an alphanumeric, a
\* whitespace character or one of the eleven punctuation characters, so that an
\* underscore does not survive.
C6_OnlyAlnumSpacePunct ==
    tpc \in {"cleaned", "recleaned"} =>
        \A i \in 1..Len(cleaned) :
            cleaned[i] \in C6_Claimed

\* the characters clean_text keeps: those of the claim, and the underscore
C6_Survives(c) == c \in C6_Surviving

\* C6 amended: the result is made of the alphanumerics, underscores, whitespace
\* and eleven punctuation characters of the argument, in their original order,
\* every one of them kept except the whitespace before the first and after the
\* last character that is kept and is not whitespace.
C6_KeepsWordSpacePunct ==
    tpc \in {"cleaned", "recleaned"} =>
        LET src == IF text = None THEN <<>> ELSE text
            solid == { i \in 1..Len(src) :
                         C6_Survives(src[i]) /\ src[i] \notin C6_Whitespace }
            lo == IF solid = {} THEN 1
                  ELSE CHOOSE i \in solid : \A j \in solid : i <= j
            hi == IF solid = {} THEN 0
                  ELSE CHOOSE i \in solid : \A j \in solid : j <= i
        IN  /\ cleaned = SelectSeq(SubSeq(src, lo, hi), C6_Survives)
            /\ \A i \in 1..Len(cleaned) : C6_Survives(cleaned[i])

\* C6's case: an underscore, a character that is removed and whitespace to trim
C6_Witness ==
    /\ tpc = "cleaned"
    \* ' @_'
    /\ text = <<" ", "@", "_">>
    \* '_'
    /\ cleaned = <<"_">>

\* C7: clean_text(clean_text(s)) = clean_text(s) for every s, the empty string
\* and None included.
C7_Idempotent == tpc = "recleaned" => recleaned = cleaned

\* C7's case: a second call on a result the first call changed
C7_Witness ==
    /\ tpc = "recleaned"
    \* '@ X'
    /\ text = <<"@", " ", "X">>
    \* 'X'
    /\ cleaned = <<"X">>
    \* 'X'
    /\ recleaned = <<"X">>

---------------------------------------------------------------------------
(* Claims about normalize_title_for_duplicate_detection, under SpecText.   *)

\* s.split(): the maximal runs of characters that are not whitespace
RECURSIVE C8_Split(_)
C8_Split(s) ==
    LET t == LStrip(s)
        n == IF \E i \in 1..Len(t) : IsSpace(t[i])
             THEN (CHOOSE i \in 1..Len(t) :
                      IsSpace(t[i]) /\ \A j \in 1..(i - 1) : ~IsSpace(t[j])) - 1
             ELSE Len(t)
    IN  IF t = <<>> THEN <<>>
        ELSE <<SubSeq(t, 1, n)>> \o C8_Split(SubSeq(t, n + 1, Len(t)))

\* ' '.join(words)
RECURSIVE C8_Join(_)
C8_Join(words) ==
    IF words = <<>> THEN <<>>
    ELSE IF Len(words) = 1 THEN words[1]
    ELSE words[1] \o <<" ">> \o C8_Join(Tail(words))

\* 'breaking', 'update', 'exclusive'
C8_MarkerWords == { <<"b", "r", "e", "a", "k", "i", "n", "g">>, <<"u", "p", "d", "a", "t", "e">>, <<"e", "x", "c", "l", "u", "s", "i", "v", "e">> }

\* s without the marker word, and the colon after it, that s begins with
C8_DropMarker(s) ==
    IF \E m \in C8_MarkerWords : StartsWith(s, m)
    THEN LET m == CHOOSE w \in C8_MarkerWords : StartsWith(s, w)
             rest == SubSeq(s, Len(m) + 1, Len(s))
         IN  IF rest # <<>> /\ rest[1] = ":" THEN Tail(rest) ELSE rest
    ELSE s

C8_Argument == Lower(IF text = None THEN <<>> ELSE text)

\* the result has no whitespace at either end, none but single spaces inside
C8_Tidy(s) ==
    /\ \A i \in 1..Len(s) : IsSpace(s[i]) => s[i] = " "
    /\ s # <<>> => s[1] # " " /\ s[Len(s)] # " "
    /\ \A i \in 1..(Len(s) - 1) : ~(s[i] = " " /\ s[i + 1] = " ")

\* C8 as stated: lower-case, remove one marker only when it sits at the very
\* start of the string, collapse the whitespace, trim; a marker preceded by
\* whitespace is not at the very start and stays.
C8_MarkerAtVeryStartOnly ==
    tpc = "normalized" =>
        /\ normalized = C8_Join(C8_Split(C8_DropMarker(C8_Argument)))
        /\ C8_Tidy(normalized)

\* C8 amended: lower-case, trim, remove one marker at the start of the trimmed
\* string, collapse the whitespace: a marker preceded only by whitespace is
\* removed, a second stacked marker is kept, and the result is tidy.
C8_TrimThenMarker ==
    tpc = "normalized" =>
        /\ normalized = C8_Join(C8_Split(C8_DropMarker(LStrip(C8_Argument))))
        /\ C8_Tidy(normalized)
        \* 'Breaking: Update: X', 'update: x'
        /\ text = <<"B", "r", "e", "a", "k", "i", "n", "g", ":", " ", "U", "p", "d", "a", "t", "e", ":", " ", "X">> => normalized = <<"u", "p", "d", "a", "t", "e", ":", " ", "x">>

\* C8's case: a marker behind leading whitespace, and whitespace to collapse
C8_Witness ==
    /\ tpc = "normalized"
    \* ' Breaking: X'
    /\ text = <<" ", "B", "r", "e", "a", "k", "i", "n", "g", ":", " ", "X">>
    \* 'x'
    /\ normalized = <<"x">>

---------------------------------------------------------------------------
(* Claims about process_entries_with_duplicates, under Spec.  They are     *)
(* stated over the argument all_entries, not over the dict the code keeps. *)

Called == pc \in {"grouping", "done"}

\* the elements of a set of numbers, ascending
RECURSIVE Ascending(_)
Ascending(S) ==
    IF S = {} THEN <<>>
    ELSE LET m == CHOOSE x \in S : \A y \in S : x <= y
         IN  <<m>> \o Ascending(S \ {m})

ExclusionSubstrings ==
    \* '.gov', 'Quiver Quantitative', 'MSN', 'Twin States News'
    { <<".", "g", "o", "v">>, <<"Q", "u", "i", "v", "e", "r", " ", "Q", "u", "a", "n", "t", "i", "t", "a", "t", "i", "v", "e">>, <<"M", "S", "N">>, <<"T", "w", "i", "n", " ", "S", "t", "a", "t", "e", "s", " ", "N", "e", "w", "s">> }

\* the outlet name the article is processed under
OutletOf(e) ==
    \* 'Unknown'
    IF e.source.title = None \/ e.source.title = <<>> THEN <<"U", "n", "k", "n", "o", "w", "n">>
    ELSE e.source.title

\* what the claims say of one article: whether its raw outlet name contains an
\* exclusion substring; its cleaned outlet name; its displayed title,
\* clean(title with the trailing ' - {outlet}' removed); its key,
\* normalize(displayed title)
Read(e) ==
    LET display == clean_text(ReSubOutletSuffix(
                       IF e.title = None THEN <<>> ELSE e.title, OutletOf(e)))
    IN  [dropped |-> /\ e.source.title # None
                     /\ \E x \in ExclusionSubstrings : Contains(e.source.title, x),
         outlet  |-> clean_text(OutletOf(e)),
         display |-> display,
         key     |-> normalize_title_for_duplicate_detection(display)]

\* Read does not depend on the link: its values for the articles, worked out once
ReadTable == [a \in Articles |-> Read(EntryOf(a, 1))] @@ <<>>
ReadOf(e) ==
    LET a == <<e.title, e.source.title>>
    IN  IF a \in DOMAIN ReadTable THEN ReadTable[a] ELSE Read(e)

Dropped(e) == ReadOf(e).dropped
DisplayTitleOf(e) == ReadOf(e).display
KeyOf(e) == ReadOf(e).key

KeptIndices == { i \in 1..Len(all_entries) : ~Dropped(all_entries[i]) }
KeptKeys == { KeyOf(all_entries[i]) : i \in KeptIndices }

\* the indices of the articles that are not excluded and carry key k, in input order
Carriers(k) == Ascending({ i \in KeptIndices : KeyOf(all_entries[i]) = k })

\* the first article with key k in the whole input, excluded ones included
FirstSeen(k) ==
    CHOOSE i \in 1..Len(all_entries) :
        /\ KeyOf(all_entries[i]) = k
        /\ \A j \in 1..(i - 1) : KeyOf(all_entries[j]) # k

\* the places (group, position) at which article e is a member
Places(e) ==
    { gp \in UNION { { <<g, p>> : p \in 1..Len(title_groups[g].members) } :
                      g \in 1..Len(title_groups) } :
        title_groups[gp[1]].members[gp[2]].entry = e }

RECURSIVE GroupSizes(_)
GroupSizes(groups) ==
    IF groups = <<>> THEN 0
    ELSE Len(Head(groups).members) + GroupSizes(Tail(groups))

\* C1: every article that is not excluded is a member of exactly one title
\* group, an excluded article ('.gov', case-sensitive) of none, and the group
\* sizes plus the number of excluded articles add up to the number of articles.
C1_Partition ==
    Called =>
        /\ \A i \in 1..Len(all_entries) :
               Cardinality(Places(all_entries[i]))
                   = IF Dropped(all_entries[i]) THEN 0 ELSE 1
        /\ GroupSizes(title_groups)
               + Cardinality({ i \in 1..Len(all_entries) : Dropped(all_entries[i]) })
               = Len(all_entries)

\* C1's case: a '.gov' article and an 'MSN' article dropped, an 'msn' article
\* and others grouped
C1_Witness ==
    /\ pc = "done"
    \* 'ks.gov'
    /\ \E i \in 1..Len(all_entries) : all_entries[i].source.title = <<"k", "s", ".", "g", "o", "v">>
    \* 'MSN'
    /\ \E i \in 1..Len(all_entries) : all_entries[i].source.title = <<"M", "S", "N">>
    \* 'msn'
    /\ \E i \in 1..Len(all_entries) : all_entries[i].source.title = <<"m", "s", "n">>
    /\ Len(title_groups) = 1
    /\ Len(title_groups[1].members) = 1
    /\ Len(processed) = 1

\* C2 as stated: the groups, and the merged entries, are in the order in which
\* their keys first appear in the input, also when the first article carrying
\* a key is dropped by outlet exclusion and a later one survives.
C2_OrderOfFirstAppearance ==
    Called =>
        \A g, h \in 1..Len(title_groups) :
            g < h => FirstSeen(title_groups[g].key) < FirstSeen(title_groups[h].key)

\* C2 amended: the Nth distinct key to appear among the articles that are not
\* excluded produces the Nth group and the Nth merged entry; an excluded
\* article does not count as an appearance of its key.
C2_OrderOfFirstKeptAppearance ==
    Called =>
        /\ Len(title_groups) = Cardinality(KeptKeys)
        /\ \A g \in 1..Len(title_groups) : title_groups[g].key \in KeptKeys
        /\ \A g, h \in 1..Len(title_groups) :
               g < h => Carriers(title_groups[g].key)[1]
                            < Carriers(title_groups[h].key)[1]
        /\ pc = "done" =>
               /\ Len(processed) = Len(title_groups)
               /\ \A n \in 1..Len(processed) :
                      processed[n].link
                          = all_entries[Carriers(title_groups[n].key)[1]].link

\* C2's case: a key first carried by an excluded article, then another key,
\* then the first key on an article that is kept
C2_Witness ==
    /\ pc = "done"
    /\ Len(all_entries) = 3
    /\ Dropped(all_entries[1])
    /\ KeptIndices = {2, 3}
    /\ KeyOf(all_entries[1]) = KeyOf(all_entries[3])
    /\ KeyOf(all_entries[1]) # KeyOf(all_entries[2])
    /\ Len(processed) = 2
    /\ processed[2].link = all_entries[3].link

\* C3: one merged entry per distinct key among the articles that are not
\* excluded; two such articles are in the same group exactly when their keys
\* are equal; the entry's title and link are those of the first of them.
C3_OneEntryPerKey ==
    pc = "done" =>
        /\ Len(processed) = Cardinality(KeptKeys)
        /\ \A i, j \in KeptIndices :
               (\E p \in Places(all_entries[i]), q \in Places(all_entries[j]) :
                    p[1] = q[1])
                   <=> KeyOf(all_entries[i]) = KeyOf(all_entries[j])
        /\ \A i \in KeptIndices :
               \A p \in Places(all_entries[i]) :
                   LET first == all_entries[Carriers(KeyOf(all_entries[i]))[1]]
                   IN  /\ processed[p[1]].link = first.link
                       /\ processed[p[1]].title = DisplayTitleOf(first)
        /\ (/\ Len(all_entries) = 2
            \* 'Moran Wins Vote - KSN-TV'
            /\ all_entries[1].title = <<"M", "o", "r", "a", "n", " ", "W", "i", "n", "s", " ", "V", "o", "t", "e", " ", "-", " ", "K", "S", "N", "-", "T", "V">>
            \* 'KSN-TV'
            /\ all_entries[1].source.title = <<"K", "S", "N", "-", "T", "V">>
            \* 'Breaking: Moran Wins Vote'
            /\ all_entries[2].title = <<"B", "r", "e", "a", "k", "i", "n", "g", ":", " ", "M", "o", "r", "a", "n", " ", "W", "i", "n", "s", " ", "V", "o", "t", "e">>)
               => /\ Len(processed) = 1
                  \* 'Moran Wins Vote'
                  /\ processed[1].title = <<"M", "o", "r", "a", "n", " ", "W", "i", "n", "s", " ", "V", "o", "t", "e">>
                  /\ processed[1].link = all_entries[1].link

\* C3's case: the scenario of the specification, the MSN article excluded
C3_Witness ==
    /\ pc = "done"
    /\ Len(all_entries) = 3
    \* 'Moran Wins Vote - KSN-TV'
    /\ all_entries[1].title = <<"M", "o", "r", "a", "n", " ", "W", "i", "n", "s", " ", "V", "o", "t", "e", " ", "-", " ", "K", "S", "N", "-", "T", "V">>
    \* 'KSN-TV'
    /\ all_entries[1].source.title = <<"K", "S", "N", "-", "T", "V">>
    \* 'MSN'
    /\ all_entries[2].source.title = <<"M", "S", "N">>
    \* 'Breaking: Moran Wins Vote'
    /\ all_entries[3].title = <<"B", "r", "e", "a", "k", "i", "n", "g", ":", " ", "M", "o", "r", "a", "n", " ", "W", "i", "n", "s", " ", "V", "o", "t", "e">>
    \* 'WIBW'
    /\ all_entries[3].source.title = <<"W", "I", "B", "W">>
    /\ Len(processed) = 1
    \* 'Moran Wins Vote'
    /\ processed[1].title = <<"M", "o", "r", "a", "n", " ", "W", "i", "n", "s", " ", "V", "o", "t", "e">>
    \* 'https://a'
    /\ processed[1].link = <<"h", "t", "t", "p", "s", ":", "/", "/", "a">>

\* the cleaned outlet names of the articles of group n, in input order
OutletsOfGroup(n) ==
    LET members == Carriers(title_groups[n].key)
    IN  [j \in 1..Len(members) |-> ReadOf(all_entries[members[j]]).outlet]

\* the regional list in force, and Mode B on it: the outlet equals, whatever
\* the case, an entry of the list that is not empty once trimmed
RegionalNamesOf ==
    [arg \in KansasArgs |->
        LET list == IF arg = NoList THEN KANSAS_OUTLETS ELSE arg
        IN  { Lower(Strip(list[i])) : i \in 1..Len(list) } \ {<<>>}] @@ <<>>
Regional(outlet) == Lower(outlet) \in RegionalNamesOf[kansas_outlets]
Starred(outlet) == IF Regional(outlet) THEN <<"*">> \o outlet ELSE outlet

\* d1, d2, ..., d(N-1) and dN
RECURSIVE Listing(_)
Listing(ds) ==
    IF Len(ds) = 1 THEN ds[1]
    \* ' and '
    ELSE IF Len(ds) = 2 THEN ds[1] \o <<" ", "a", "n", "d", " ">> \o ds[2]
    \* ', '
    ELSE ds[1] \o <<",", " ">> \o Listing(Tail(ds))

\* P, P (also ran in d1), P (also ran in d1, ..., d(N-1) and dN)
Attribution(outlets) ==
    IF Len(outlets) = 1 THEN outlets[1]
    \* ' (also ran in ', ')'
    ELSE outlets[1] \o <<" ", "(", "a", "l", "s", "o", " ", "r", "a", "n", " ", "i", "n", " ">> \o Listing(Tail(outlets)) \o <<")">>

\* C4: the primary outlet and every duplicate outlet is prefixed with '*'
\* exactly when it is regional under Mode B, and is_kansas is that test on
\* the primary outlet.
C4_RegionalMarking ==
    pc = "done" =>
        \A n \in 1..Len(processed) :
            LET outlets == OutletsOfGroup(n)
            IN  /\ processed[n].is_kansas = Regional(outlets[1])
                /\ processed[n].media_string
                       = Attribution([j \in 1..Len(outlets) |-> Starred(outlets[j])])

\* C4's case: exact matches starred, whatever the case and once trimmed; an
\* outlet that contains a regional name, and one contained in one, not starred
C4_Witness ==
    /\ pc = "done"
    /\ Len(processed) = 2
    /\ \/ /\ kansas_outlets = NoList
          \* '*KSN-TV (also ran in *WIBW and msn)'
          /\ processed[1].media_string = <<"*", "K", "S", "N", "-", "T", "V", " ", "(", "a", "l", "s", "o", " ", "r", "a", "n", " ", "i", "n", " ", "*", "W", "I", "B", "W", " ", "a", "n", "d", " ", "m", "s", "n", ")">>
          /\ processed[1].is_kansas
       \/ /\ kansas_outlets # NoList
          \* 'KSN-TV (also ran in *WIBW and msn)'
          /\ processed[1].media_string = <<"K", "S", "N", "-", "T", "V", " ", "(", "a", "l", "s", "o", " ", "r", "a", "n", " ", "i", "n", " ", "*", "W", "I", "B", "W", " ", "a", "n", "d", " ", "m", "s", "n", ")">>
          /\ ~processed[1].is_kansas
    \* 'WIBW News'
    /\ processed[2].media_string = <<"W", "I", "B", "W", " ", "N", "e", "w", "s">>
    /\ ~processed[2].is_kansas

Unstarred(s) == SelectSeq(s, LAMBDA c : c # "*")

\* C5: media_string is P alone, P (also ran in d1), or
\* P (also ran in d1, ..., d(N-1) and dN), with ', ' between all but the last
\* pair, ' and ' before the last and no comma before it, the duplicates in
\* input order, none of them dropped or moved.
C5_AttributionJoin ==
    pc = "done" =>
        \A n \in 1..Len(processed) :
            /\ Unstarred(processed[n].media_string) = Attribution(OutletsOfGroup(n))
            /\ Len(OutletsOfGroup(n)) = Len(title_groups[n].members)

\* C5's case: three duplicates, one outlet twice
C5_Witness ==
    /\ pc = "done"
    /\ Len(processed) = 1
    /\ processed[1].media_string
           \* '*KSN-TV (also ran in *WIBW, msn and *WIBW)'
           = <<"*", "K", "S", "N", "-", "T", "V", " ", "(", "a", "l", "s", "o", " ", "r", "a", "n", " ", "i", "n", " ", "*", "W", "I", "B", "W", ",", " ", "m", "s", "n", " ", "a", "n", "d", " ", "*", "W", "I", "B", "W", ")">>

\* the argument with every missing outlet name written 'Unknown' and every
\* missing title written ''
Defaulted(entries) ==
    [i \in 1..Len(entries) |->
        [entries[i] EXCEPT
            !.title = IF @ = None THEN <<>> ELSE @,
            \* 'Unknown'
            !.source.title = IF @ = None \/ @ = <<>> THEN <<"U", "n", "k", "n", "o", "w", "n">> ELSE @]]

\* the first loop on a whole argument
RECURSIVE GroupAll(_, _)
GroupAll(groups, entries) ==
    IF entries = <<>> THEN groups
    ELSE GroupAll(GroupEntry(groups, Head(entries)), Tail(entries))

\* the title, media and link of every member of every group
Shown(groups) ==
    [g \in 1..Len(groups) |->
        [key |-> groups[g].key,
         members |-> [p \in 1..Len(groups[g].members) |->
                         [title |-> groups[g].members[p].title,
                          media |-> groups[g].members[p].media,
                          link  |-> groups[g].members[p].link]]]]

\* C9 as stated: no call raises, whatever the entries lack (here raised is
\* "none" in every state); an article whose outlet name is absent, None or empty
\* is processed as the same article with outlet name 'Unknown', one whose title
\* is None or empty as title ''; an empty argument gives an empty list.
C9_MissingFieldsDefault ==
    /\ raised = "none"
    /\ pc # "raised"
    /\ Called =>
           LET asUnknown == GroupAll(<<>>, Defaulted(all_entries))
           IN  /\ Shown(title_groups) = Shown(asUnknown)
               /\ pc = "done" =>
                      processed = [g \in 1..Len(asUnknown) |->
                                      MergedEntry(asUnknown[g].members,
                                                  OutletList(kansas_outlets))]
    /\ (pc = "done" /\ all_entries = <<>>) => processed = <<>>
    /\ \A g \in 1..Len(title_groups) :
           \A p \in 1..Len(title_groups[g].members) :
               LET member == title_groups[g].members[p]
               \* 'Unknown'
               IN  ~Truthy(member.entry.source.title) => member.media = <<"U", "n", "k", "n", "o", "w", "n">>

---------------------------------------------------------------------------
(* The claim about fetch_entries, under SpecFetch.                         *)

LinkAt(i) == feed_items[i].item.link
HasLink(i) == LinkAt(i) # None /\ LinkAt(i) # <<>>

\* the feed items that are the first to carry their link, in the order read
FirstCarriers ==
    Ascending({ i \in 1..Len(feed_items) :
                  HasLink(i) /\ \A j \in 1..(i - 1) : LinkAt(j) # LinkAt(i) })

\* C10: no two records share a link, no record has a missing or empty link,
\* every link seen in a feed has exactly one record, built from the first item
\* that carried it in term order then feed order, and the records are in that
\* order.
C10_DedupByLink ==
    fpc \in {"fetching", "returned"} =>
        /\ \A i, j \in 1..Len(fetched) : fetched[i].link = fetched[j].link => i = j
        /\ \A i \in 1..Len(fetched) : fetched[i].link # None /\ fetched[i].link # <<>>
        /\ \A i \in 1..Len(feed_items) :
               HasLink(i) => \E k \in 1..Len(fetched) : fetched[k].link = LinkAt(i)
        /\ Len(fetched) = Len(FirstCarriers)
        /\ \A k \in 1..Len(fetched) :
               LET first == feed_items[FirstCarriers[k]].item
               IN  /\ fetched[k].link = first.link
                   /\ fetched[k].title = Strip(IF first.title = None THEN <<>>
                                               ELSE first.title)
        /\ \A i, j \in 1..Len(feed_items) :
               i < j => feed_items[i].term <= feed_items[j].term

\* C10's case: a link carried again under a later term, and an item without a link
C10_Witness ==
    /\ fpc = "returned"
    /\ Len(feed_items) = 3
    /\ feed_items[1].term = 1
    \* 'https://a'
    /\ LinkAt(1) = <<"h", "t", "t", "p", "s", ":", "/", "/", "a">>
    /\ LinkAt(2) = None
    /\ feed_items[3].term = 2
    \* 'https://a'
    /\ LinkAt(3) = <<"h", "t", "t", "p", "s", ":", "/", "/", "a">>
    \* 'Farm Bill'
    /\ feed_items[3].item.title = <<"F", "a", "r", "m", " ", "B", "i", "l", "l">>
    /\ Len(fetched) = 1
    \* 'Moran Wins Vote'
    /\ fetched[1].title = <<"M", "o", "r", "a", "n", " ", "W", "i", "n", "s", " ", "V", "o", "t", "e">>

=============================================================================
